---- MODULE Spec2Model ----
(***************************************************************************)
(* Model of zoo/layers_c.py: the Layers base class of the composable       *)
(* model zoo.  A Layers instance is modelled by its attribute dictionary   *)
(* (a function from attribute names to values; an attribute that was never *)
(* assigned is absent from the domain and is looked up on the class).      *)
(* Python values are strings ("None", "True", "(1, 1)", ...), widths are   *)
(* integers, a tensor handle is the input it derives from together with    *)
(* the sequence of Keras layers applied to it, and a Keras layer is the    *)
(* record of the arguments its constructor received.                       *)
(***************************************************************************)
EXTENDS Integers, Sequences, FiniteSets, TLC

VARIABLES self, heap, call, outcome

vars == <<self, heap, call, outcome>>

(***************************************************************************)
(* Bounds of the model.                                                    *)
(***************************************************************************)
NumTensors == 2
MaxWidth == 2
MaxKeys == 2
MaxTops == 3

(***************************************************************************)
(* Python values and helpers.                                              *)
(***************************************************************************)
None == "None"
True == "True"
False == "False"

NoneVal == [none |-> TRUE]

EmptyBag == [k \in {} |-> None]

\* truth value of a Python object in `if norm:`
Truthy(v) == v \notin {"None", "False", "0", "0.0", ""}

\* names bound in the module's global namespace by the import statements
\* and the class statement
Globals ==
    {"tf", "Sequential", "Model", "Input", "layers", "ReLU", "Dense",
     "Conv2D", "Conv2DTranspose", "DepthwiseConv2D", "SeparableConv2D",
     "Dropout", "GlobalAveragePooling2D", "Activation",
     "BatchNormalization", "l2", "Adam", "SGD", "glorot_uniform",
     "he_normal", "LearningRateScheduler", "ImageDataGenerator",
     "to_categorical", "tfds", "K", "np", "train_test_split", "random",
     "math", "sys", "Layers"}

\* class attributes of Layers
ClassAttrs ==
    [init_weights |-> "he_normal", reg |-> None, relu |-> None, bias |-> True]

\* self.<name>: instance dictionary first, then the class
HasAttr(obj, name) == name \in DOMAIN obj \/ name \in DOMAIN ClassAttrs

GetAttr(obj, name) ==
    IF name \in DOMAIN obj THEN obj[name] ELSE ClassAttrs[name]

\* self.<name> = v
SetAttr(obj, name, v) ==
    [a \in DOMAIN obj \cup {name} |-> IF a = name THEN v ELSE obj[a]]

\* the result of a call: the instance afterwards, the model objects
\* afterwards, the value returned and the exception raised
Return(obj, v) == [self |-> obj, ret |-> v, err |-> "none"]

Raise(obj, e) == [self |-> obj, ret |-> NoneVal, err |-> e]

SeqToSet(s) == {s[i] : i \in DOMAIN s}

IndexOf(s, e) == CHOOSE i \in DOMAIN s : s[i] = e

\* {**a, **b} for dictionaries with disjoint keys
Merge(a, b) ==
    [k \in DOMAIN a \cup DOMAIN b |-> IF k \in DOMAIN a THEN a[k] ELSE b[k]]

\* Python's binding of a call's arguments to a signature
\* (names..., **extra): positional arguments fill the leading parameters,
\* keywords that name a parameter fill it, the others go to **extra
BindArgs(names, defaults, pos, kw) ==
    LET N == SeqToSet(names)
        dup == \E i \in DOMAIN pos : i <= Len(names) /\ names[i] \in DOMAIN kw
        missing == \E i \in DOMAIN names :
                      /\ i > Len(pos)
                      /\ names[i] \notin DOMAIN kw
                      /\ names[i] \notin DOMAIN defaults
    IN  IF Len(pos) > Len(names) \/ dup \/ missing
        THEN [err |-> "TypeError", args |-> EmptyBag, extra |-> EmptyBag]
        ELSE [err |-> "none",
              args |-> [n \in N |->
                          IF IndexOf(names, n) <= Len(pos)
                          THEN pos[IndexOf(names, n)]
                          ELSE IF n \in DOMAIN kw THEN kw[n]
                          ELSE defaults[n]],
              extra |-> [k \in DOMAIN kw \ N |-> kw[k]]]

\* f(..., name=value, **bag): a keyword given twice is a TypeError
DupKeyword(explicit, bag) == DOMAIN explicit \cap DOMAIN bag # {}

(***************************************************************************)
(* The external tensor-graph engine: a layer constructor returns the       *)
(* record of its arguments, calling the layer on a tensor appends it.      *)
(***************************************************************************)
Tensor(i) == [src |-> i, ops |-> <<>>]

Apply(layer, t) == [src |-> t.src, ops |-> Append(t.ops, layer)]

LastLayer(t) == t.ops[Len(t.ops)]

IsTensor(v) == DOMAIN v = {"src", "ops"}

(***************************************************************************)
(* Layers.__init__                                                         *)
(***************************************************************************)
Construct(init_weights, reg, relu, bias) ==
    LET s0 == EmptyBag
        s1 == IF init_weights # None
              THEN SetAttr(s0, "init_weights", init_weights) ELSE s0
        s2 == IF reg # None THEN SetAttr(s1, "reg", reg) ELSE s1
        s3 == IF relu # None THEN SetAttr(s2, "relu", relu) ELSE s2
        s4 == IF bias # None THEN SetAttr(s3, "bias", bias) ELSE s3
    IN  s4

(***************************************************************************)
(* Two-level resolution of one knob: the bag's value when the key is       *)
(* present, otherwise the instance attribute.                              *)
(***************************************************************************)
Resolve(obj, hp, key) ==
    IF key \in DOMAIN hp THEN hp[key] ELSE GetAttr(obj, key)

(***************************************************************************)
(* Layer factories.  pos are the positional arguments after self, kw the   *)
(* keyword arguments of the call.                                          *)
(***************************************************************************)
ConvDefaults ==
    [strides |-> "(1, 1)", padding |-> "valid", activation |-> None]

Dense(obj, pos, kw) ==
    LET b == BindArgs(<<"x", "units", "activation", "use_bias">>,
                      [activation |-> None, use_bias |-> True], pos, kw)
        hp == b.extra
        layer == [class |-> "Dense",
                  units |-> b.args.units,
                  activation |-> b.args.activation,
                  use_bias |-> b.args.use_bias,
                  kernel_initializer |-> Resolve(obj, hp, "init_weights"),
                  kernel_regularizer |-> Resolve(obj, hp, "reg")]
    IN  IF b.err # "none" THEN Raise(obj, b.err)
        ELSE Return(obj, Apply(layer, b.args.x))

\* a Conv2D that keeps the regularizer of the call as the new default
Conv2D_storesOverride(obj, pos, kw) ==
    LET b == BindArgs(<<"x", "n_filters", "kernel_size", "strides",
                        "padding", "activation">>, ConvDefaults, pos, kw)
        hp == b.extra
        layer == [class |-> "Conv2D",
                  filters |-> b.args.n_filters,
                  kernel_size |-> b.args.kernel_size,
                  strides |-> b.args.strides,
                  padding |-> b.args.padding,
                  activation |-> b.args.activation,
                  use_bias |-> Resolve(obj, hp, "bias"),
                  kernel_initializer |-> Resolve(obj, hp, "init_weights"),
                  kernel_regularizer |-> Resolve(obj, hp, "reg")]
    IN  IF b.err # "none" THEN Raise(obj, b.err)
        ELSE Return(SetAttr(obj, "reg", Resolve(obj, hp, "reg")),
                    Apply(layer, b.args.x))

Conv2D(obj, pos, kw) ==
    LET b == BindArgs(<<"x", "n_filters", "kernel_size", "strides",
                        "padding", "activation">>, ConvDefaults, pos, kw)
        hp == b.extra
        layer == [class |-> "Conv2D",
                  filters |-> b.args.n_filters,
                  kernel_size |-> b.args.kernel_size,
                  strides |-> b.args.strides,
                  padding |-> b.args.padding,
                  activation |-> b.args.activation,
                  use_bias |-> Resolve(obj, hp, "bias"),
                  kernel_initializer |-> Resolve(obj, hp, "init_weights"),
                  kernel_regularizer |-> Resolve(obj, hp, "reg")]
    IN  IF b.err # "none" THEN Raise(obj, b.err)
        ELSE Return(obj, Apply(layer, b.args.x))

Conv2DTranspose(obj, pos, kw) ==
    LET b == BindArgs(<<"x", "n_filters", "kernel_size", "strides",
                        "padding", "activation">>, ConvDefaults, pos, kw)
        hp == b.extra
        layer == [class |-> "Conv2DTranspose",
                  filters |-> b.args.n_filters,
                  kernel_size |-> b.args.kernel_size,
                  strides |-> b.args.strides,
                  padding |-> b.args.padding,
                  activation |-> b.args.activation,
                  use_bias |-> Resolve(obj, hp, "bias"),
                  kernel_initializer |-> Resolve(obj, hp, "init_weights"),
                  kernel_regularizer |-> Resolve(obj, hp, "reg")]
    IN  IF b.err # "none" THEN Raise(obj, b.err)
        ELSE Return(obj, Apply(layer, b.args.x))

DepthwiseConv2D(obj, pos, kw) ==
    LET b == BindArgs(<<"x", "kernel_size", "strides", "padding",
                        "activation">>, ConvDefaults, pos, kw)
        hp == b.extra
        layer == [class |-> "DepthwiseConv2D",
                  kernel_size |-> b.args.kernel_size,
                  strides |-> b.args.strides,
                  padding |-> b.args.padding,
                  activation |-> b.args.activation,
                  use_bias |-> Resolve(obj, hp, "bias"),
                  kernel_initializer |-> Resolve(obj, hp, "init_weights"),
                  kernel_regularizer |-> Resolve(obj, hp, "reg")]
    IN  IF b.err # "none" THEN Raise(obj, b.err)
        ELSE Return(obj, Apply(layer, b.args.x))

SeparableConv2D(obj, pos, kw) ==
    LET b == BindArgs(<<"x", "n_filters", "kernel_size", "strides",
                        "padding", "activation">>, ConvDefaults, pos, kw)
        hp == b.extra
        layer == [class |-> "SeparableConv2D",
                  filters |-> b.args.n_filters,
                  kernel_size |-> b.args.kernel_size,
                  strides |-> b.args.strides,
                  padding |-> b.args.padding,
                  activation |-> b.args.activation,
                  use_bias |-> Resolve(obj, hp, "bias"),
                  kernel_initializer |-> Resolve(obj, hp, "init_weights"),
                  kernel_regularizer |-> Resolve(obj, hp, "reg")]
    IN  IF b.err # "none" THEN Raise(obj, b.err)
        ELSE Return(obj, Apply(layer, b.args.x))

ReLU(obj, x) ==
    Return(obj, Apply([class |-> "ReLU", max_value |-> GetAttr(obj, "relu")], x))

\* BatchNormalization(epsilon=1.001e-5, **params)(x)
BatchNormalization(obj, x, params) ==
    IF DupKeyword([epsilon |-> "1.001e-5"], params)
    THEN Raise(obj, "TypeError")
    ELSE Return(obj, Apply([class |-> "BatchNormalization",
                            kwargs |-> Merge([epsilon |-> "1.001e-5"], params)],
                           x))

(***************************************************************************)
(* Pre-stem layer Normalize: __init__ looks up the global name Composable  *)
(* before it stores max.                                                   *)
(***************************************************************************)
Normalize(obj, pos, kw) ==
    LET b == BindArgs(<<"max">>, [max |-> "255.0"], pos, kw)
    IN  IF b.err # "none" THEN Raise(obj, b.err)
        ELSE IF "Composable" \notin Globals THEN Raise(obj, "NameError")
        ELSE Return(obj, [class |-> "Normalize", max |-> b.args.max,
                          kwargs |-> b.extra])

(***************************************************************************)
(* Group builders.                                                         *)
(***************************************************************************)
prestem(obj, pos, kw) ==
    LET b == BindArgs(<<"inputs">>, EmptyBag, pos, kw)
        metaparameters == b.extra
        inputs == b.args.inputs
        n == Normalize(obj, <<inputs>>, EmptyBag)
    IN  IF b.err # "none" THEN Raise(obj, b.err)
        ELSE IF "norm" \in DOMAIN metaparameters
                /\ Truthy(metaparameters["norm"])
        THEN IF n.err # "none" THEN Raise(n.self, n.err)
             ELSE Return(n.self, n.ret)
        ELSE Return(obj, inputs)

\* the second half of stem, after the first convolution returned c1
stemTail(c1, pooling, kernel_size) ==
    LET b1 == BatchNormalization(c1.self, c1.ret, EmptyBag)
        r1 == ReLU(b1.self, b1.ret)
        c2 == Conv2D(r1.self, <<r1.ret, kernel_size>>,
                     [strides |-> "(2, 2)", padding |-> "same"])
        b2 == BatchNormalization(c2.self, c2.ret, EmptyBag)
        r2 == ReLU(b2.self, b2.ret)
    IN  IF b1.err # "none" THEN Raise(b1.self, b1.err)
        ELSE IF pooling = "max"
        THEN IF "MaxPooling2D" \notin Globals THEN Raise(r1.self, "NameError")
             ELSE Return(r1.self,
                         Apply([class |-> "MaxPooling2D",
                                pool_size |-> "(2, 2)", strides |-> "2"],
                               r1.ret))
        ELSE IF pooling = "feature"
        THEN IF c2.err # "none" THEN Raise(c2.self, c2.err)
             ELSE IF b2.err # "none" THEN Raise(b2.self, b2.err)
             ELSE r2
        ELSE r1

stem(obj, pos, kw) ==
    LET b == BindArgs(<<"inputs", "kernel_size">>,
                      [kernel_size |-> "(7, 7)"], pos, kw)
        metaparameters == b.extra
        pooling == IF "pooling" \in DOMAIN metaparameters
                   THEN metaparameters["pooling"] ELSE None
        c1 == Conv2D(obj, <<b.args.inputs, b.args.kernel_size>>,
                     [strides |-> "(1, 1)", padding |-> "same"])
    IN  IF b.err # "none" THEN Raise(obj, b.err)
        ELSE IF c1.err # "none" THEN Raise(c1.self, c1.err)
        ELSE stemTail(c1, pooling, b.args.kernel_size)

\* a classifier that records the embedding before it applies the pooling
classifierPool_recordsBeforePooling(obj, x0, pooling) ==
    IF pooling # None
    THEN [self |-> SetAttr(SetAttr(obj, "encoding", x0), "embedding", x0),
          x |-> Apply([class |-> pooling], x0)]
    ELSE [self |-> obj, x |-> x0]

\* a classifier that records the checkpoints also when pooling is skipped
classifierPool_recordsAlways(obj, x0, pooling) ==
    LET x1 == IF pooling # None THEN Apply([class |-> pooling], x0) ELSE x0
    IN  [self |-> SetAttr(SetAttr(obj, "encoding", x0), "embedding", x1),
         x |-> x1]

\* the pooling step of classifier: the instance and the tensor after it
classifierPool(obj, x0, pooling) ==
    LET s1 == SetAttr(obj, "encoding", x0)
        x1 == Apply([class |-> pooling], x0)
        s2 == SetAttr(s1, "embedding", x1)
    IN  IF pooling # None THEN [self |-> s2, x |-> x1]
        ELSE [self |-> obj, x |-> x0]

\* a classifier that does not hand its bag to the final dense layer
classifierHead_dropsBag(obj, x, n_classes, metaparameters) ==
    LET d == Dense(obj, <<x, n_classes>>, [use_bias |-> True])
        outputs == Apply([class |-> "Activation", activation |-> "softmax"],
                         d.ret)
    IN  IF d.err # "none" THEN Raise(d.self, d.err)
        ELSE Return(SetAttr(SetAttr(d.self, "probabilities", d.ret),
                            "softmax", outputs), outputs)

\* a classifier that keeps the logits as its softmax checkpoint
classifierHead_softmaxIsLogits(obj, x, n_classes, metaparameters) ==
    LET d == Dense(obj, <<x, n_classes>>,
                   Merge([use_bias |-> True], metaparameters))
        outputs == Apply([class |-> "Activation", activation |-> "softmax"],
                         d.ret)
    IN  IF DupKeyword([use_bias |-> True], metaparameters)
        THEN Raise(obj, "TypeError")
        ELSE IF d.err # "none" THEN Raise(d.self, d.err)
        ELSE Return(SetAttr(SetAttr(d.self, "probabilities", d.ret),
                            "softmax", d.ret), outputs)

\* the final dense layer and the softmax of classifier
classifierHead(obj, x, n_classes, metaparameters) ==
    LET d == Dense(obj, <<x, n_classes>>,
                   Merge([use_bias |-> True], metaparameters))
        s3 == SetAttr(d.self, "probabilities", d.ret)
        outputs == Apply([class |-> "Activation", activation |-> "softmax"],
                         d.ret)
        s4 == SetAttr(s3, "softmax", outputs)
    IN  IF DupKeyword([use_bias |-> True], metaparameters)
        THEN Raise(obj, "TypeError")
        ELSE IF d.err # "none" THEN Raise(d.self, d.err)
        ELSE Return(s4, outputs)

classifier(obj, pos, kw) ==
    LET b == BindArgs(<<"x", "n_classes">>, EmptyBag, pos, kw)
        metaparameters == b.extra
        pooling == IF "pooling" \in DOMAIN metaparameters
                   THEN metaparameters["pooling"]
                   ELSE "GlobalAveragePooling2D"
        dropout == IF "dropout" \in DOMAIN metaparameters
                   THEN metaparameters["dropout"] ELSE None
        p  == classifierPool(obj, b.args.x, pooling)
        x2 == IF dropout # None
              THEN Apply([class |-> "Dropout", rate |-> dropout], p.x)
              ELSE p.x
    IN  IF b.err # "none" THEN Raise(obj, b.err)
        ELSE classifierHead(p.self, x2, b.args.n_classes, metaparameters)

(***************************************************************************)
(* top and summary work on the model object self._model; model objects     *)
(* live in heap and self._model is the index of the current one.           *)
(***************************************************************************)
\* a top that edits the outputs of the current model object in place
top_inPlace(obj, hp, layer) ==
    IF ~HasAttr(obj, "_model")
    THEN [self |-> obj, heap |-> hp, ret |-> NoneVal, err |-> "AttributeError"]
    ELSE LET cur == GetAttr(obj, "_model")
             outputs == Apply(layer, hp[cur].outputs)
             new == [inputs |-> hp[cur].inputs, outputs |-> outputs]
         IN  [self |-> SetAttr(obj, "_model", Len(hp) + 1),
              heap |-> Append([hp EXCEPT ![cur].outputs = outputs], new),
              ret |-> NoneVal, err |-> "none"]

top(obj, hp, layer) ==
    IF ~HasAttr(obj, "_model")
    THEN [self |-> obj, heap |-> hp, ret |-> NoneVal, err |-> "AttributeError"]
    ELSE LET m == hp[GetAttr(obj, "_model")]
             outputs == Apply(layer, m.outputs)
             new == [inputs |-> m.inputs, outputs |-> outputs]
         IN  [self |-> SetAttr(obj, "_model", Len(hp) + 1),
              heap |-> Append(hp, new),
              ret |-> NoneVal, err |-> "none"]

summary(obj) ==
    IF ~HasAttr(obj, "_model") THEN Raise(obj, "AttributeError")
    ELSE Return(obj, NoneVal)

(***************************************************************************)
(* Inputs of the calls.                                                    *)
(***************************************************************************)
Tensors == {Tensor(i) : i \in 1..NumTensors}

Widths == 1..MaxWidth

\* every bag that gives some of the keys of V one of the values V lists
BagsOver(V) ==
    UNION {{f \in [K -> UNION {V[k] : k \in K}] : \A k \in K : f[k] \in V[k]}
           : K \in SUBSET DOMAIN V}

\* the bags of BagsOver(V) with at most one key
OneKey(V) == {f \in BagsOver(V) : Cardinality(DOMAIN f) <= 1}

KnobValues ==
    [init_weights |-> {"zeros"}, reg |-> {None, "l2"}, bias |-> {True, False}]

ConvBags == BagsOver(KnobValues) \cup OneKey([junk |-> {"1"}])

DenseBags == BagsOver(KnobValues) \cup OneKey([use_bias |-> {False}])

BatchNormBags ==
    OneKey([junk |-> {"1"}, epsilon |-> {"0.001"}, momentum |-> {"0.9"}])

PrestemBags ==
    OneKey([norm |-> {True, False, None}, normalize |-> {True},
            junk |-> {"1"}])

StemBags == OneKey([pooling |-> {"max", "feature"}, junk |-> {"1"}])

ClassifierKnobs ==
    [pooling |-> {None, "GlobalMaxPooling2D"}, dropout |-> {None, "0.0"},
     init_weights |-> {"zeros"}, reg |-> {"l1"}]

ClassifierExtras == [activation |-> {"relu"}]

\* bags with a key that is also a keyword of the call at line 126
CollidingBags == {[use_bias |-> False]}

ClassifierBags ==
    {f \in BagsOver(ClassifierKnobs) : Cardinality(DOMAIN f) <= MaxKeys}
        \cup OneKey(ClassifierExtras)

\* the narrow inputs of the specification that mixes every method
OneTensor == {Tensor(NumTensors)}

OneWidth == {MaxWidth}

NarrowDenseBags == OneKey(Merge(KnobValues, [use_bias |-> {False}]))

NarrowConvBags == OneKey(KnobValues)

NarrowBatchNormBags == OneKey([momentum |-> {"0.9"}])

NarrowPrestemBags == OneKey([norm |-> {True, False}])

NarrowStemBags == OneKey([pooling |-> {"max", "feature"}])

NarrowClassifierBags ==
    OneKey(Merge(ClassifierKnobs, [use_bias |-> {False}]))

KernelSizes == {"(3, 3)"}

TopLayers ==
    {[class |-> "Dense", units |-> 1], [class |-> "Activation",
                                        activation |-> "sigmoid"]}

(***************************************************************************)
(* State after construction: Layers(init_weights, reg, relu, bias).  A     *)
(* subclass that has assembled a model has also assigned self._model.      *)
(***************************************************************************)
NoCall == [op |-> "__init__", args |-> EmptyBag, kw |-> EmptyBag]

NoOutcome == [ret |-> NoneVal, err |-> "none"]

ConstructorArgs ==
    {<<None, None, None, None>>, <<"glorot_uniform", "l2", "6.0", False>>,
     <<None, "l2", None, False>>}

Init ==
    /\ \E a \in ConstructorArgs : self = Construct(a[1], a[2], a[3], a[4])
    /\ heap = <<>>
    /\ call = NoCall
    /\ outcome = NoOutcome

InitModel ==
    /\ \E a \in ConstructorArgs :
          \/ self = Construct(a[1], a[2], a[3], a[4]) /\ heap = <<>>
          \/ \E t \in Tensors :
                /\ self = SetAttr(Construct(a[1], a[2], a[3], a[4]),
                                  "_model", 1)
                /\ heap = <<[inputs |-> Tensor(1), outputs |-> t]>>
    /\ call = NoCall
    /\ outcome = NoOutcome

(***************************************************************************)
(* Actions: one call of a method on the instance.                          *)
(***************************************************************************)
Finish(op, args, kw, r) ==
    /\ call' = [op |-> op, args |-> args, kw |-> kw]
    /\ outcome' = [ret |-> r.ret, err |-> r.err]
    /\ self' = r.self
    /\ heap' = heap

CallDense(x, units, kw) ==
    Finish("Dense", [x |-> x, units |-> units], kw,
           Dense(self, <<x, units>>, kw))

CallConv2D(x, n, k, kw) ==
    Finish("Conv2D", [x |-> x, n_filters |-> n, kernel_size |-> k], kw,
           Conv2D(self, <<x, n, k>>, kw))

CallConv2DTranspose(x, n, k, kw) ==
    Finish("Conv2DTranspose", [x |-> x, n_filters |-> n, kernel_size |-> k],
           kw, Conv2DTranspose(self, <<x, n, k>>, kw))

CallDepthwiseConv2D(x, k, kw) ==
    Finish("DepthwiseConv2D", [x |-> x, kernel_size |-> k], kw,
           DepthwiseConv2D(self, <<x, k>>, kw))

CallSeparableConv2D(x, n, k, kw) ==
    Finish("SeparableConv2D", [x |-> x, n_filters |-> n, kernel_size |-> k],
           kw, SeparableConv2D(self, <<x, n, k>>, kw))

CallReLU(x) == Finish("ReLU", [x |-> x], EmptyBag, ReLU(self, x))

CallBatchNormalization(x, kw) ==
    Finish("BatchNormalization", [x |-> x], kw,
           BatchNormalization(self, x, kw))

CallPrestem(x, kw) ==
    Finish("prestem", [inputs |-> x], kw, prestem(self, <<x>>, kw))

CallStem(x, kw) ==
    Finish("stem", [inputs |-> x], kw, stem(self, <<x>>, kw))

CallStemKernel(x, k, kw) ==
    Finish("stem", [inputs |-> x, kernel_size |-> k], kw,
           stem(self, <<x, k>>, kw))

CallClassifier(x, n, kw) ==
    Finish("classifier", [x |-> x, n_classes |-> n], kw,
           classifier(self, <<x, n>>, kw))

CallTop(layer) ==
    LET r == top(self, heap, layer)
    IN  /\ Len(heap) <= MaxTops
        /\ call' = [op |-> "top", args |-> [layer |-> layer], kw |-> EmptyBag]
        /\ outcome' = [ret |-> r.ret, err |-> r.err]
        /\ self' = r.self
        /\ heap' = r.heap

CallSummary == Finish("summary", EmptyBag, EmptyBag, summary(self))

(***************************************************************************)
(* Specifications.                                                         *)
(***************************************************************************)
\* the layer factories and the stem builders, with every bag
NextFactory ==
    \/ \E x \in Tensors, u \in Widths, kw \in DenseBags : CallDense(x, u, kw)
    \/ \E x \in Tensors, n \in Widths, k \in KernelSizes, kw \in ConvBags :
          CallConv2D(x, n, k, kw)
    \/ \E x \in Tensors, n \in Widths, k \in KernelSizes, kw \in ConvBags :
          CallConv2DTranspose(x, n, k, kw)
    \/ \E x \in Tensors, k \in KernelSizes, kw \in ConvBags :
          CallDepthwiseConv2D(x, k, kw)
    \/ \E x \in Tensors, n \in Widths, k \in KernelSizes, kw \in ConvBags :
          CallSeparableConv2D(x, n, k, kw)
    \/ \E x \in Tensors : CallReLU(x)
    \/ \E x \in Tensors, kw \in BatchNormBags : CallBatchNormalization(x, kw)
    \/ \E x \in Tensors, kw \in PrestemBags : CallPrestem(x, kw)
    \/ \E x \in Tensors, kw \in StemBags : CallStem(x, kw)
    \/ \E x \in Tensors, k \in KernelSizes, kw \in StemBags :
          CallStemKernel(x, k, kw)

SpecFactory == Init /\ [][NextFactory]_vars

\* the classifier head
NextClassifier ==
    \/ \E x \in Tensors, n \in Widths, kw \in ClassifierBags :
          CallClassifier(x, n, kw)
    \/ \E kw \in CollidingBags : CallClassifier(Tensor(1), 1, kw)

SpecClassifier == Init /\ [][NextClassifier]_vars

\* top and summary on an assembled model
NextTop ==
    \/ \E layer \in TopLayers : CallTop(layer)
    \/ CallSummary

SpecTop == InitModel /\ [][NextTop]_vars

\* every factory and group builder in any order, on narrow inputs
Next ==
    \/ \E x \in OneTensor, u \in OneWidth, kw \in NarrowDenseBags :
          CallDense(x, u, kw)
    \/ \E x \in OneTensor, n \in OneWidth, k \in KernelSizes,
          kw \in NarrowConvBags : CallConv2D(x, n, k, kw)
    \/ \E x \in OneTensor, n \in OneWidth, k \in KernelSizes,
          kw \in NarrowConvBags : CallConv2DTranspose(x, n, k, kw)
    \/ \E x \in OneTensor, k \in KernelSizes, kw \in NarrowConvBags :
          CallDepthwiseConv2D(x, k, kw)
    \/ \E x \in OneTensor, n \in OneWidth, k \in KernelSizes,
          kw \in NarrowConvBags : CallSeparableConv2D(x, n, k, kw)
    \/ \E x \in OneTensor : CallReLU(x)
    \/ \E x \in OneTensor, kw \in NarrowBatchNormBags :
          CallBatchNormalization(x, kw)
    \/ \E x \in OneTensor, kw \in NarrowPrestemBags : CallPrestem(x, kw)
    \/ \E x \in OneTensor, kw \in NarrowStemBags : CallStem(x, kw)
    \/ \E x \in OneTensor, k \in KernelSizes, kw \in NarrowStemBags :
          CallStemKernel(x, k, kw)
    \/ \E x \in OneTensor, n \in OneWidth, kw \in NarrowClassifierBags :
          CallClassifier(x, n, kw)

Spec == Init /\ [][Next]_vars

(***************************************************************************)
(* Properties.                                                             *)
(***************************************************************************)
Factories ==
    {"Dense", "Conv2D", "Conv2DTranspose", "DepthwiseConv2D",
     "SeparableConv2D"}

Knobs == {"init_weights", "reg", "relu", "bias"}

\* the stored defaults of an instance
Config(obj) == [k \in Knobs |-> GetAttr(obj, k)]

\* the value the two-level rule gives a knob in the last call
Expected(key) ==
    IF key \in DOMAIN call.kw THEN call.kw[key] ELSE GetAttr(self, key)

Completed(op) == call.op = op /\ outcome.err = "none"

SoftmaxLayer == [class |-> "Activation", activation |-> "softmax"]

\* the pooling constructor and the dropout rate a classifier bag asks for
PoolingOf(bag) ==
    IF "pooling" \in DOMAIN bag THEN bag["pooling"]
    ELSE "GlobalAveragePooling2D"

DropoutOf(bag) == IF "dropout" \in DOMAIN bag THEN bag["dropout"] ELSE None

IsSet(obj, a) == a \in DOMAIN obj

SameAttr(a) ==
    /\ IsSet(self', a) <=> IsSet(self, a)
    /\ IsSet(self, a) => self'[a] = self[a]

\* C1: every factory, Dense included, configures the layer it builds with
\* the bag's value for 'init_weights', 'reg' and 'bias' when the key is
\* present and with the instance's stored default when it is absent.
C1_KnobResolution ==
    (call.op \in Factories /\ "use_bias" \notin DOMAIN call.kw) =>
        /\ outcome.err = "none"
        /\ LastLayer(outcome.ret).kernel_initializer = Expected("init_weights")
        /\ LastLayer(outcome.ret).kernel_regularizer = Expected("reg")
        /\ LastLayer(outcome.ret).use_bias = Expected("bias")

\* C2: no call changes the stored defaults init_weights, reg, relu and
\* bias, and a factory call that omits a key builds its layer with the
\* default as it was stored before the call, whatever earlier calls
\* overrode (of Dense only init_weights and reg are resolved this way).
C2_DefaultsFrame ==
    [][/\ Config(self') = Config(self)
       /\ (call'.op \in Factories /\ outcome'.err = "none") =>
            LET L == LastLayer(outcome'.ret)
            IN  /\ "init_weights" \notin DOMAIN call'.kw =>
                      L.kernel_initializer = GetAttr(self, "init_weights")
                /\ "reg" \notin DOMAIN call'.kw =>
                      L.kernel_regularizer = GetAttr(self, "reg")
                /\ ("bias" \notin DOMAIN call'.kw /\ call'.op # "Dense") =>
                      L.use_bias = GetAttr(self, "bias")]_vars

\* a call overrode the regularizer with a value that differs from the
\* stored default
C2_Witness ==
    /\ Completed("Conv2D")
    /\ "reg" \in DOMAIN call.kw
    /\ call.kw["reg"] # GetAttr(self, "reg")
    /\ LastLayer(outcome.ret).kernel_regularizer = call.kw["reg"]
    /\ IsSet(self, "softmax")

\* C3: a classifier call with pooling requested records its input as
\* encoding, the pooled encoding as embedding, applies dropout to the
\* embedding exactly when the bag has a non-None rate, applies the dense
\* layer of width n_classes and records it as probabilities, applies
\* softmax to that, records it as softmax and returns it.
C3_ClassifierOrder ==
    (Completed("classifier") /\ PoolingOf(call.kw) # None) =>
        /\ IsSet(self, "encoding") /\ self["encoding"] = call.args.x
        /\ IsSet(self, "embedding")
        /\ self["embedding"]
             = Apply([class |-> PoolingOf(call.kw)], self["encoding"])
        /\ IsSet(self, "probabilities")
        /\ LET hidden == IF DropoutOf(call.kw) # None
                         THEN Apply([class |-> "Dropout",
                                     rate |-> DropoutOf(call.kw)],
                                    self["embedding"])
                         ELSE self["embedding"]
               dense == LastLayer(self["probabilities"])
           IN  /\ self["probabilities"] = Apply(dense, hidden)
               /\ dense.class = "Dense"
               /\ dense.units = call.args.n_classes
        /\ IsSet(self, "softmax")
        /\ self["softmax"] = Apply(SoftmaxLayer, self["probabilities"])
        /\ outcome.ret = self["softmax"]

\* a classifier call with the default pooling and a dropout rate of 0.0
C3_Witness ==
    /\ Completed("classifier")
    /\ "pooling" \notin DOMAIN call.kw
    /\ DropoutOf(call.kw) = "0.0"
    /\ Len(outcome.ret.ops) = 4

\* C4: a classifier call whose bag has pooling None applies no pooling
\* layer and leaves encoding and embedding as they were, set or unset;
\* when it completes it has overwritten probabilities and softmax.
C4_NoPoolingFrame ==
    [][(/\ call'.op = "classifier"
        /\ "pooling" \in DOMAIN call'.kw
        /\ call'.kw["pooling"] = None) =>
          /\ SameAttr("encoding")
          /\ SameAttr("embedding")
          /\ outcome'.err = "none" =>
               LET hidden == IF DropoutOf(call'.kw) # None
                             THEN Apply([class |-> "Dropout",
                                         rate |-> DropoutOf(call'.kw)],
                                        call'.args.x)
                             ELSE call'.args.x
               IN  /\ self'["probabilities"]
                        = Apply(LastLayer(self'["probabilities"]), hidden)
                   /\ LastLayer(self'["probabilities"]).class = "Dense"
                   /\ self'["softmax"]
                        = Apply(SoftmaxLayer, self'["probabilities"])
                   /\ outcome'.ret = self'["softmax"]]_vars

\* after a call without pooling the encoding is still the one of an
\* earlier call on another tensor
C4_Witness ==
    /\ Completed("classifier")
    /\ PoolingOf(call.kw) = None
    /\ IsSet(self, "encoding")
    /\ self["encoding"] # call.args.x
    /\ self["probabilities"].src = call.args.x.src

\* C5: stem builds a stride-1 same-padded convolution, batch
\* normalization and a ReLU clipped at the instance's relu, then one
\* stride-2 max pooling for pooling='max', one more stride-(2,2)
\* convolution / batch normalization / ReLU for pooling='feature', nothing
\* when the key is absent, and returns the tensor without an error.
C5_StemStrategy ==
    call.op = "stem" =>
        /\ outcome.err = "none"
        /\ LET ops == outcome.ret.ops
               pooling == IF "pooling" \in DOMAIN call.kw
                          THEN call.kw["pooling"] ELSE None
           IN  /\ Len(ops) >= 3
               /\ ops[1].class = "Conv2D"
               /\ ops[1].strides = "(1, 1)" /\ ops[1].padding = "same"
               /\ ops[2].class = "BatchNormalization"
               /\ ops[3] = [class |-> "ReLU",
                            max_value |-> GetAttr(self, "relu")]
               /\ pooling = None => Len(ops) = 3
               /\ pooling = "max" =>
                     /\ Len(ops) = 4
                     /\ ops[4].class = "MaxPooling2D" /\ ops[4].strides = "2"
               /\ pooling = "feature" =>
                     /\ Len(ops) = 6
                     /\ ops[4].class = "Conv2D"
                     /\ ops[4].strides = "(2, 2)" /\ ops[4].padding = "same"
                     /\ ops[5].class = "BatchNormalization"
                     /\ ops[6].class = "ReLU"

\* C6: prestem returns its input through a Normalize layer of maximum 255
\* when the bag's 'normalize' is truthy, and the very same input otherwise.
C6_Prestem ==
    call.op = "prestem" =>
        /\ outcome.err = "none"
        /\ IF "normalize" \in DOMAIN call.kw /\ Truthy(call.kw["normalize"])
           THEN outcome.ret = Apply([class |-> "Normalize", max |-> "255.0",
                                     kwargs |-> EmptyBag],
                                    call.args.inputs)
           ELSE outcome.ret = call.args.inputs

\* C7: each top call leaves every existing model object as it was and
\* makes the current model a new object with the previous model's inputs
\* and the layer applied to the previous model's outputs; so the current
\* model has the original inputs, and its outputs are the original outputs
\* with the given layers applied in call order.
C7_TopReplaces ==
    /\ [][(call'.op = "top" /\ outcome'.err = "none") =>
            /\ \A i \in DOMAIN heap : heap'[i] = heap[i]
            /\ self'["_model"] \notin DOMAIN heap
            /\ heap'[self'["_model"]]
                 = [inputs |-> heap[self["_model"]].inputs,
                    outputs |-> Apply(call'.args.layer,
                                      heap[self["_model"]].outputs)]]_vars
    /\ [](IsSet(self, "_model") =>
            /\ self["_model"] = Len(heap)
            /\ heap[self["_model"]].inputs = heap[1].inputs
            /\ heap[self["_model"]].outputs.src = heap[1].outputs.src
            /\ \A k \in 2..Len(heap) :
                  /\ heap[k].inputs = heap[1].inputs
                  /\ heap[k].outputs
                       = Apply(LastLayer(heap[k].outputs), heap[k-1].outputs))

\* two different layers have been put on top of the original model
C7_Witness ==
    /\ Completed("top")
    /\ Len(heap) = 3
    /\ self["_model"] = 3
    /\ heap[3].outputs.ops = <<heap[2].outputs.ops[1], call.args.layer>>
    /\ heap[2].outputs.ops[1] # call.args.layer
    /\ heap[1].outputs.ops = <<>>

\* C8: a key the method does not recognize ('junk') never raises an error
\* in prestem, Dense, the convolution factories and BatchNormalization,
\* and is never handed to the constructor of an external layer.
C8_PermissiveBag ==
    (call.op # "stem" /\ "junk" \in DOMAIN call.kw) =>
        /\ outcome.err = "none"
        /\ \A i \in DOMAIN outcome.ret.ops :
              "kwargs" \in DOMAIN outcome.ret.ops[i] =>
                  "junk" \notin DOMAIN outcome.ret.ops[i].kwargs

\* C9: the final dense layer of a classifier call has n_classes units and
\* bias enabled whatever the instance's bias default, and takes its
\* initializer and regularizer from the classifier's bag when the key is
\* there and from the instance otherwise; 'pooling' and 'dropout' do not
\* enter its configuration.
C9_TerminalDense ==
    Completed("classifier") =>
        LET dense == LastLayer(self["probabilities"])
        IN  /\ dense.class = "Dense"
            /\ dense.units = call.args.n_classes
            /\ dense.use_bias = True
            /\ dense.kernel_initializer = Expected("init_weights")
            /\ dense.kernel_regularizer = Expected("reg")
            /\ DOMAIN dense = {"class", "units", "activation", "use_bias",
                               "kernel_initializer", "kernel_regularizer"}
            /\ dense.activation \in {None, "relu"}

\* an instance whose bias default is off, a bag with an initializer and a
\* pooling key
C9_Witness ==
    /\ Completed("classifier")
    /\ GetAttr(self, "bias") = False
    /\ "init_weights" \in DOMAIN call.kw
    /\ call.kw["init_weights"] # GetAttr(self, "init_weights")
    /\ "pooling" \in DOMAIN call.kw

\* C10: encoding is set exactly when embedding is, and embedding is a
\* pooling of encoding; probabilities is set exactly when softmax is, and
\* softmax is the softmax of probabilities; a classifier call writes
\* encoding and embedding together from its own input or writes neither,
\* and a completed one writes probabilities and softmax from its own input.
C10_CheckpointPairs ==
    /\ [](/\ IsSet(self, "encoding") <=> IsSet(self, "embedding")
          /\ IsSet(self, "encoding") =>
                /\ Len(self["embedding"].ops) = 1
                /\ self["embedding"]
                     = Apply(LastLayer(self["embedding"]), self["encoding"])
          /\ IsSet(self, "probabilities") <=> IsSet(self, "softmax")
          /\ IsSet(self, "softmax") =>
                self["softmax"] = Apply(SoftmaxLayer, self["probabilities"]))
    /\ [][call'.op = "classifier" =>
            /\ IF PoolingOf(call'.kw) # None
               THEN /\ self'["encoding"] = call'.args.x
                    /\ self'["embedding"].src = call'.args.x.src
               ELSE SameAttr("encoding") /\ SameAttr("embedding")
            /\ IF outcome'.err = "none"
               THEN /\ self'["probabilities"].src = call'.args.x.src
                    /\ LastLayer(self'["probabilities"]).units
                         = call'.args.n_classes
                    /\ self'["softmax"] = outcome'.ret
               ELSE SameAttr("probabilities") /\ SameAttr("softmax")]_vars

\* after a call with pooling and a later call without, the two pairs of
\* checkpoints come from different calls
C10_Witness ==
    /\ Completed("classifier")
    /\ PoolingOf(call.kw) = None
    /\ IsSet(self, "embedding")
    /\ self["embedding"].src # self["softmax"].src
====
